---- MODULE Spec2Model ----
(***************************************************************************)
(* A model of frappe/database/utils.py (is_query_type, table_from_string,  *)
(* LazyString, LazyDecode, LazyMogrify) and of FrappeAPITestCase.sid in    *)
(* frappe/tests/test_api.py.                                               *)
(*                                                                         *)
(* Text is a sequence of code points (integers) for the lazy cells, and a  *)
(* sequence of one-character strings for the query helpers and the sid.    *)
(***************************************************************************)
EXTENDS Integers, Sequences, FiniteSets, TLC

VARIABLES
    cls,        \* class of the cell instance; "none" before construction
    _value,     \* LazyDecode._value: the stored byte sequence
    query,      \* LazyMogrify.query
    values,     \* LazyMogrify.values
    cached,     \* instance __dict__["value"]: <<>> (absent) or <<text>>
    rendered,   \* what frappe.db.mogrify yields for (query, values)
    evalLog,    \* every _setup invocation: its class, arguments and outcome
    history,    \* every finished access: operation and what the caller saw
    build,      \* functools.cached_property of the interpreter in use
    lock,       \* cached_property.lock holder (0: free)
    pc,         \* per thread: position inside cached_property.__get__
    frame,      \* per thread: locals of the running access
    q_query,    \* is_query_type: argument query
    q_type,     \* is_query_type: argument query_type (a tuple of keywords)
    q_ret,      \* is_query_type: <<>> before the call, <<outcome>> after
    t_table,    \* table_from_string: argument table
    t_ret,      \* table_from_string: <<>> before the call, <<outcome>> after
    _sid,       \* FrappeAPITestCase._sid: <<>> (attribute absent) or <<text>>
    logins,     \* session ids issued by POST /api/method/login, in order
    sidReads    \* what each read of the sid property returned

cellVars == <<cls, _value, query, values, cached, rendered, evalLog, history>>
threadVars == <<build, lock, pc, frame>>
queryVars == <<q_query, q_type, q_ret>>
tableVars == <<t_table, t_ret>>
sidVars == <<_sid, logins, sidReads>>
vars == <<cellVars, threadVars, queryVars, tableVars, sidVars>>

----------------------------------------------------------------------------
(* Bounds *)

MaxAccess == 3      \* accesses made to one cell
MaxBytes == 3       \* length of a LazyDecode byte sequence
MaxText == 2        \* length of a text frappe.db.mogrify returns

----------------------------------------------------------------------------
(* Generic helpers *)

RECURSIVE SeqsUpTo(_, _)
SeqsUpTo(S, n) ==
    IF n = 0 THEN {<<>>}
    ELSE LET shorter == SeqsUpTo(S, n - 1)
         IN  shorter \cup {Append(s, x) : s \in {t \in shorter : Len(t) = n - 1}, x \in S}

\* what a call hands back to its caller: a returned value or a raised error
Return(v) == [ok |-> TRUE, val |-> v, err |-> ""]
Raise(e) == [ok |-> FALSE, val |-> <<>>, err |-> e]

----------------------------------------------------------------------------
(* bytes.decode(): strict UTF-8, as self._value.decode() runs it *)

Utf8SeqLen(lead) ==
    IF lead < 128 THEN 1
    ELSE IF lead \in 194..223 THEN 2
    ELSE IF lead \in 224..239 THEN 3
    ELSE IF lead \in 240..244 THEN 4
    ELSE 0

Utf8SecondOk(lead, b) ==
    CASE lead = 224 -> b \in 160..191
      [] lead = 237 -> b \in 128..159
      [] lead = 240 -> b \in 144..191
      [] lead = 244 -> b \in 128..143
      [] OTHER -> b \in 128..191

Utf8ChunkOk(b, i, n) ==
    /\ n > 0
    /\ i + n - 1 <= Len(b)
    /\ n >= 2 => Utf8SecondOk(b[i], b[i + 1])
    /\ \A k \in 2..(n - 1) : b[i + k] \in 128..191

Utf8CodePoint(b, i, n) ==
    CASE n = 1 -> b[i]
      [] n = 2 -> (b[i] - 192) * 64 + (b[i + 1] - 128)
      [] n = 3 -> (b[i] - 224) * 4096 + (b[i + 1] - 128) * 64 + (b[i + 2] - 128)
      [] OTHER -> (b[i] - 240) * 262144 + (b[i + 1] - 128) * 4096
                    + (b[i + 2] - 128) * 64 + (b[i + 3] - 128)

RECURSIVE Utf8DecodeFrom(_, _, _)
Utf8DecodeFrom(b, i, acc) ==
    IF i > Len(b) THEN Return(acc)
    ELSE LET n == Utf8SeqLen(b[i])
         IN  IF Utf8ChunkOk(b, i, n)
             THEN Utf8DecodeFrom(b, i + n, Append(acc, Utf8CodePoint(b, i, n)))
             ELSE Raise("UnicodeDecodeError")

bytes_decode_lenient(b) == Return(b)

bytes_decode(b) == Utf8DecodeFrom(b, 1, <<>>)

----------------------------------------------------------------------------
(* The lazy cells *)

QUOTE == 39     \* the character ' of the f-string in __repr__

\* A, and lead and continuation bytes that make well-formed, truncated,
\* overlong and surrogate sequences
ByteSet == {65, 192, 195, 169, 224, 226, 130, 237, 160, 240}
ByteStrings == SeqsUpTo(ByteSet, MaxBytes)
Queries == {<<37, 115>>, <<97>>}
ValueSets == {<<>>, <<97>>}
Texts == SeqsUpTo({97, QUOTE}, MaxText)

NOT_FOUND == <<>>

OtherThanCell == UNCHANGED <<build, lock, pc, frame, q_query, q_type, q_ret,
                             t_table, t_ret, _sid, logins, sidReads>>

CellIdle ==
    /\ cls = "none"
    /\ _value = <<>>
    /\ query = <<>>
    /\ values = <<>>
    /\ cached = NOT_FOUND
    /\ rendered = <<>>
    /\ evalLog = <<>>
    /\ history = <<>>

\* object.__init__: the base class
LazyString__init__ ==
    /\ cls = "none"
    /\ cls' = "LazyString"
    /\ UNCHANGED <<_value, query, values, cached, rendered, evalLog, history>>
    /\ OtherThanCell

\* values_given: the byte sequences the caller may pass
LazyDecode__init__(values_given) ==
    /\ cls = "none"
    /\ \E value \in values_given :
          /\ cls' = "LazyDecode"
          /\ _value' = value
    /\ UNCHANGED <<query, values, cached, rendered, evalLog, history>>
    /\ OtherThanCell

\* args: the (query, values) pairs the caller may pass; outs: the texts
\* frappe.db.mogrify may render for them, fixed by the environment
LazyMogrify__init__(args, outs) ==
    /\ cls = "none"
    /\ \E a \in args, out \in outs :
          /\ cls' = "LazyMogrify"
          /\ query' = a[1]
          /\ values' = a[2]
          /\ rendered' = out
    /\ UNCHANGED <<_value, cached, evalLog, history>>
    /\ OtherThanCell

\* the outcomes one invocation of _setup can have, per class
LazyString_setup == {Raise("NotImplementedError")}

LazyDecode_setup == {bytes_decode(_value)}

LazyMogrify_args_swapped == <<values, query>>

LazyMogrify_args == <<query, values>>

\* frappe.db.mogrify(self.query, self.values): it renders, or the database raises
LazyMogrify_setup == {Return(rendered), Raise("DatabaseError")}

_setup ==
    CASE cls = "LazyDecode" -> LazyDecode_setup
      [] cls = "LazyMogrify" -> LazyMogrify_setup
      [] OTHER -> LazyString_setup

_setup_args ==
    CASE cls = "LazyDecode" -> <<_value>>
      [] cls = "LazyMogrify" -> LazyMogrify_args
      [] OTHER -> <<>>

\* cached_property: the lookup in the instance __dict__
cache_get_skipped == NOT_FOUND

cache_get == cached

\* cached_property: what the instance __dict__ holds after _setup ended with r
cache_set_dropped(r) == cached

cache_set_always(r) == <<r.val>>

cache_set(r) == IF r.ok THEN <<r.val>> ELSE cached

\* self.value, where r is the outcome of _setup should it be invoked
value_get(r) ==
    IF cache_get # NOT_FOUND
    THEN [ret |-> Return(cache_get[1]), cached |-> cached, evalLog |-> evalLog]
    ELSE [ret |-> r,
          cached |-> cache_set(r),
          evalLog |-> Append(evalLog, [cls |-> cls, args |-> _setup_args, out |-> r])]

\* repr(self.value) in place of the f-string: a quote inside the text is escaped
RECURSIVE EscapeQuotes(_)
EscapeQuotes(v) ==
    IF v = <<>> THEN <<>>
    ELSE (IF Head(v) = QUOTE THEN <<92, QUOTE>> ELSE <<Head(v)>>) \o EscapeQuotes(Tail(v))

repr_format_escaped(v) == <<QUOTE>> \o EscapeQuotes(v) \o <<QUOTE>>

repr_format(v) == <<QUOTE>> \o v \o <<QUOTE>>

Access(op, g, ret) ==
    /\ cached' = g.cached
    /\ evalLog' = g.evalLog
    /\ history' = Append(history, [op |-> op, ret |-> ret])
    /\ UNCHANGED <<cls, _value, query, values, rendered>>
    /\ OtherThanCell

value ==
    /\ cls # "none"
    /\ Len(history) < MaxAccess
    /\ \E r \in _setup :
          LET g == value_get(r) IN Access("value", g, g.ret)

__str__ ==
    /\ cls # "none"
    /\ Len(history) < MaxAccess
    /\ \E r \in _setup :
          LET g == value_get(r) IN Access("__str__", g, g.ret)

__repr__ ==
    /\ cls # "none"
    /\ Len(history) < MaxAccess
    /\ \E r \in _setup :
          LET g == value_get(r)
          IN  Access("__repr__", g,
                     IF g.ret.ok THEN Return(repr_format(g.ret.val)) ELSE g.ret)

----------------------------------------------------------------------------
(* Two threads reading value: cached_property.__get__ step by step.        *)
(* functools.cached_property takes a lock around the evaluation up to      *)
(* Python 3.11 and takes none from 3.12 on; utils.py runs on 3.10 and      *)
(* later, so both builds are possible.                                     *)

Threads == {1, 2}

ThreadsIdle ==
    /\ build = "none"
    /\ lock = 0
    /\ pc = <<>>
    /\ frame = <<>>

ThreadsInit ==
    /\ build \in {"locked", "unlocked"}
    /\ lock = 0
    /\ pc = [t \in Threads |-> "idle"]
    /\ frame = [t \in Threads |-> [ret |-> Raise(""), sawEmpty |-> FALSE, ran |-> FALSE]]

Running == {t \in Threads : pc[t] # "idle"}

AfterEval(t) == IF lock = t THEN "release" ELSE "return"

\* val = cache.get(self.attrname, _NOT_FOUND)
get_lookup(t) ==
    /\ pc[t] = "idle"
    /\ cls # "none"
    /\ Len(history) + Cardinality(Running) < MaxAccess
    /\ frame' = [frame EXCEPT ![t] =
                    [ret |-> IF cache_get # NOT_FOUND THEN Return(cache_get[1]) ELSE Raise(""),
                     sawEmpty |-> cached = NOT_FOUND,
                     ran |-> FALSE]]
    /\ pc' = [pc EXCEPT ![t] =
                 IF cache_get # NOT_FOUND THEN "return"
                 ELSE IF build = "locked" THEN "acquire" ELSE "call"]
    /\ UNCHANGED <<build, lock, cellVars, queryVars, tableVars, sidVars>>

\* with self.lock:
get_acquire(t) ==
    /\ pc[t] = "acquire"
    /\ lock = 0
    /\ lock' = t
    /\ pc' = [pc EXCEPT ![t] = "recheck"]
    /\ UNCHANGED <<build, frame, cellVars, queryVars, tableVars, sidVars>>

\* check if another thread filled cache while we awaited lock
get_recheck(t) ==
    /\ pc[t] = "recheck"
    /\ IF cache_get # NOT_FOUND
       THEN /\ frame' = [frame EXCEPT ![t].ret = Return(cache_get[1])]
            /\ pc' = [pc EXCEPT ![t] = "release"]
       ELSE /\ frame' = frame
            /\ pc' = [pc EXCEPT ![t] = "call"]
    /\ UNCHANGED <<build, lock, cellVars, queryVars, tableVars, sidVars>>

\* val = self.func(instance)
get_call(t) ==
    /\ pc[t] = "call"
    /\ \E r \in _setup :
          /\ evalLog' = Append(evalLog, [cls |-> cls, args |-> _setup_args, out |-> r])
          /\ frame' = [frame EXCEPT ![t].ret = r, ![t].ran = TRUE]
          /\ pc' = [pc EXCEPT ![t] = IF r.ok THEN "store" ELSE AfterEval(t)]
    /\ UNCHANGED <<build, lock, cls, _value, query, values, cached, rendered, history,
                   queryVars, tableVars, sidVars>>

\* cache[self.attrname] = val
get_store(t) ==
    /\ pc[t] = "store"
    /\ cached' = cache_set(frame[t].ret)
    /\ pc' = [pc EXCEPT ![t] = AfterEval(t)]
    /\ UNCHANGED <<build, lock, frame, cls, _value, query, values, rendered, evalLog,
                   history, queryVars, tableVars, sidVars>>

\* leaving the with block
get_release(t) ==
    /\ pc[t] = "release"
    /\ lock = t
    /\ lock' = 0
    /\ pc' = [pc EXCEPT ![t] = "return"]
    /\ UNCHANGED <<build, frame, cellVars, queryVars, tableVars, sidVars>>

\* return val, or the error _setup raised
get_return(t) ==
    /\ pc[t] = "return"
    /\ history' = Append(history, [op |-> "value", ret |-> frame[t].ret])
    /\ pc' = [pc EXCEPT ![t] = "idle"]
    /\ UNCHANGED <<build, lock, frame, cls, _value, query, values, cached, rendered,
                   evalLog, queryVars, tableVars, sidVars>>

----------------------------------------------------------------------------

(* String helpers of the Python str type, over one-character strings *)

WHITESPACE == {" ", "\t"}

RECURSIVE str_lstrip(_, _)
str_lstrip(s, chars) ==
    IF s # <<>> /\ Head(s) \in chars THEN str_lstrip(Tail(s), chars) ELSE s

\* the index of the first element of s that is in chars, Len(s) + 1 when none is
RECURSIVE FindFrom(_, _, _)
FindFrom(s, chars, i) ==
    IF i > Len(s) \/ s[i] \in chars THEN i ELSE FindFrom(s, chars, i + 1)

\* s.split(maxsplit=1): whitespace-separated, at most one split
str_split_ws_1(s) ==
    LET body == str_lstrip(s, WHITESPACE)
        stop == FindFrom(body, WHITESPACE, 1)
        rest == str_lstrip(SubSeq(body, stop, Len(body)), WHITESPACE)
    IN  IF body = <<>> THEN <<>>
        ELSE IF rest = <<>> THEN <<SubSeq(body, 1, stop - 1)>>
        ELSE <<SubSeq(body, 1, stop - 1), rest>>

\* s.split(sep, maxsplit=1)
str_split_1(s, sep) ==
    LET at == FindFrom(s, {sep}, 1)
    IN  IF at > Len(s) THEN <<s>>
        ELSE <<SubSeq(s, 1, at - 1), SubSeq(s, at + 1, Len(s))>>

\* s.split(sep)
RECURSIVE str_split(_, _)
str_split(s, sep) ==
    LET at == FindFrom(s, {sep}, 1)
    IN  IF at > Len(s) THEN <<s>>
        ELSE <<SubSeq(s, 1, at - 1)>> \o str_split(SubSeq(s, at + 1, Len(s)), sep)

char_lower(c) == IF c = "S" THEN "s" ELSE IF c = "E" THEN "e" ELSE c

str_lower(s) == [i \in 1..Len(s) |-> char_lower(s[i])]

str_startswith_1(s, prefix) ==
    /\ Len(prefix) <= Len(s)
    /\ SubSeq(s, 1, Len(prefix)) = prefix

\* s.startswith(prefixes), prefixes a tuple
str_startswith(s, prefixes) ==
    \E k \in 1..Len(prefixes) : str_startswith_1(s, prefixes[k])

str_replace_char(s, old) == SelectSeq(s, LAMBDA c : c # old)

----------------------------------------------------------------------------
(* is_query_type *)

MaxQuery == 4       \* length of a query
MaxKeywords == 2    \* keywords in a query_type tuple

QueryChars == {" ", "\t", "S", "s", "e"}
Keywords == {<<"s">>, <<"s", "e">>, <<"e">>, <<"S">>}

QueryIdle == q_query = <<>> /\ q_type = <<>> /\ q_ret = <<>>

QueryInit ==
    /\ q_query \in SeqsUpTo(QueryChars, MaxQuery)
    /\ q_type \in SeqsUpTo(Keywords, MaxKeywords)
    /\ q_ret = <<>>

is_query_type_result(q, query_type) ==
    LET parts == str_split_ws_1(str_lstrip(q, WHITESPACE))
    IN  IF Len(parts) = 0 THEN Raise("IndexError")
        ELSE Return(str_startswith(str_lower(parts[1]), query_type))

is_query_type ==
    /\ q_ret = <<>>
    /\ q_ret' = <<is_query_type_result(q_query, q_type)>>
    /\ UNCHANGED <<q_query, q_type, cellVars, threadVars, tableVars, sidVars>>

----------------------------------------------------------------------------
(* table_from_string *)

MaxTable == 8       \* length of the table argument

\* the backtick character, written out: the TLA+ lexer takes none inside a string
BACKTICK == "backtick"
TableChars == {BACKTICK, ".", "t", "X"}

TableIdle == t_table = <<>> /\ t_ret = <<>>

TableInit ==
    /\ t_table \in SeqsUpTo(TableChars, MaxTable)
    /\ t_ret = <<>>

slice_from_4(s) == SubSeq(s, 5, Len(s))

\* [3:]
slice_from_3(s) == SubSeq(s, 4, Len(s))

\* split(".")[0]
split_dot_first(s) == str_split(s, ".")[1]

\* the table_name handed to frappe.qb.DocType
table_from_string_result(table) ==
    LET parts == str_split_1(table, BACKTICK)
    IN  IF Len(parts) < 2 THEN Raise("IndexError")
        ELSE LET table_name == slice_from_3(split_dot_first(parts[2]))
             IN  IF \E i \in 1..Len(table_name) : table_name[i] = BACKTICK
                 THEN Return(str_replace_char(table_name, BACKTICK))
                 ELSE Return(table_name)

table_from_string ==
    /\ t_ret = <<>>
    /\ t_ret' = <<table_from_string_result(t_table)>>
    /\ UNCHANGED <<t_table, cellVars, threadVars, queryVars, sidVars>>

----------------------------------------------------------------------------
(* FrappeAPITestCase.sid *)

MaxSidReads == 3    \* reads of the sid property
MaxSid == 2         \* length of a session id

SidChars == {"s", "d", "3", "a"}
SessionIds == SeqsUpTo(SidChars, MaxSid) \ {<<>>}

SidIdle == _sid = <<>> /\ logins = <<>> /\ sidReads = <<>>

\* r.headers[2][1]: the Set-Cookie value of the login response
SetCookie(id) == <<"s", "i", "d", "=">> \o id \o <<";", " ", "P", "a", "t", "h", "=", "/">>

\* r.headers[2][1].split(";")[0].lstrip("sid=")
sid_from_cookie(cookie) == str_lstrip(str_split(cookie, ";")[1], {"s", "i", "d", "="})

\* not getattr(self, "_sid", None): the attribute is absent or empty
sid_missing == _sid = <<>> \/ _sid[1] = <<>>

sid ==
    /\ Len(sidReads) < MaxSidReads
    /\ IF sid_missing
       THEN \E id \in SessionIds :
               LET got == sid_from_cookie(SetCookie(id))
               IN  /\ logins' = Append(logins, id)
                   /\ _sid' = <<got>>
                   /\ sidReads' = Append(sidReads, got)
       ELSE /\ sidReads' = Append(sidReads, _sid[1])
            /\ UNCHANGED <<_sid, logins>>
    /\ UNCHANGED <<cellVars, threadVars, queryVars, tableVars>>

----------------------------------------------------------------------------
(* Specifications *)

\* one cell, accessed by one thread
Init == CellIdle /\ ThreadsIdle /\ QueryIdle /\ TableIdle /\ SidIdle

Next ==
    \/ LazyString__init__
    \/ LazyDecode__init__(ByteStrings)
    \/ LazyMogrify__init__(Queries \X ValueSets, Texts)
    \/ value
    \/ __str__
    \/ __repr__

Spec == Init /\ [][Next]_vars

\* one cell, its value read by two threads
InitThreads == CellIdle /\ ThreadsInit /\ QueryIdle /\ TableIdle /\ SidIdle

NextThreads ==
    \/ LazyString__init__
    \/ LazyDecode__init__({b \in ByteStrings : Len(b) <= 1})
    \/ LazyMogrify__init__(Queries \X {<<>>}, {out \in Texts : Len(out) <= 1})
    \/ \E t \in Threads :
          \/ get_lookup(t)
          \/ get_acquire(t)
          \/ get_recheck(t)
          \/ get_call(t)
          \/ get_store(t)
          \/ get_release(t)
          \/ get_return(t)

SpecThreads == InitThreads /\ [][NextThreads]_vars

\* is_query_type applied to one query and one query_type
InitQuery == CellIdle /\ ThreadsIdle /\ QueryInit /\ TableIdle /\ SidIdle

SpecQuery == InitQuery /\ [][is_query_type]_vars

\* table_from_string applied to one table argument
InitTable == CellIdle /\ ThreadsIdle /\ QueryIdle /\ TableInit /\ SidIdle

SpecTable == InitTable /\ [][table_from_string]_vars

\* one test-case instance reading its sid property
SpecSid == Init /\ [][sid]_vars

----------------------------------------------------------------------------
(* Reading the logs *)

Last(s) == s[Len(s)]

OkEvals == {i \in 1..Len(evalLog) : evalLog[i].out.ok}

NoEvalFailed == \A i \in 1..Len(evalLog) : evalLog[i].out.ok

\* the text an access showed its caller: __repr__ shows it between two quotes
Observed(h) ==
    IF h.op = "__repr__" THEN SubSeq(h.ret.val, 2, Len(h.ret.val) - 1) ELSE h.ret.val

Ops == {history[i].op : i \in 1..Len(history)}

----------------------------------------------------------------------------
(* C1 *)

\* C1: in a cell whose evaluation step has not failed, any sequence of value,
\* __str__ and __repr__ accesses by one thread runs _setup exactly once, in the
\* first access, and every access shows the caller the one cached result; and
\* whatever failed before, no evaluation follows a successful one.
C1_EvaluatedOnce ==
    /\ (history # <<>> /\ NoEvalFailed) =>
          /\ Len(evalLog) = 1
          /\ cached = <<evalLog[1].out.val>>
          /\ \A i \in 1..Len(history) :
                /\ history[i].ret.ok
                /\ Observed(history[i]) = evalLog[1].out.val
    /\ \A i \in OkEvals : i = Len(evalLog)
    /\ Len(evalLog) <= Len(history)

C1_Witness ==
    /\ Ops = {"value", "__str__", "__repr__"}
    /\ Len(evalLog) = 1
    /\ evalLog[1].out.ok
    /\ evalLog[1].out.val # <<>>

----------------------------------------------------------------------------
(* C2 *)

Evaluated == cached # NOT_FOUND

\* C2: construction leaves the cell Unevaluated and runs no evaluation; the
\* first successful access, whichever operation it is, moves it to Evaluated
\* with the result of the one evaluation it ran; and once Evaluated no step
\* changes the cached result, runs an evaluation or changes the descriptor.
C2_TwoStates ==
    [][/\ (cls = "none" /\ cls' # "none") => (~Evaluated' /\ evalLog' = <<>>)
       /\ (~Evaluated /\ history' # history /\ Last(history').ret.ok) =>
             /\ Evaluated'
             /\ Len(evalLog') = Len(evalLog) + 1
             /\ cached' = <<Last(evalLog').out.val>>
       /\ (~Evaluated /\ history' # history /\ ~Last(history').ret.ok) => ~Evaluated'
       /\ Evaluated => (cached' = cached /\ evalLog' = evalLog)
       /\ cls # "none" => <<cls, _value, query, values>>' = <<cls, _value, query, values>>
      ]_vars

C2_Witness ==
    /\ Evaluated
    /\ Len(history) >= 3
    /\ history[1].op = "__repr__"
    /\ ~history[1].ret.ok
    /\ history[2].ret.ok

----------------------------------------------------------------------------
(* C3 *)

\* C3: an access whose evaluation raised hands that same error to its caller;
\* every raised access ran an evaluation of its own (no stored failure is ever
\* returned); and while every evaluation has failed the cell is Unevaluated and
\* each access so far has invoked the evaluation step again.
C3_FailureNotCached ==
    /\ \A i \in 1..Len(evalLog) :
          ~evalLog[i].out.ok =>
             /\ i <= Len(history)
             /\ history[i].ret = evalLog[i].out
    /\ \A i \in 1..Len(history) :
          ~history[i].ret.ok =>
             /\ i <= Len(evalLog)
             /\ ~evalLog[i].out.ok
             /\ history[i].ret.err \in {"NotImplementedError", "UnicodeDecodeError", "DatabaseError"}
    /\ OkEvals = {} => (cached = NOT_FOUND /\ Len(evalLog) = Len(history))
    /\ cls = "LazyString" => Evaluated = FALSE

C3_Witness ==
    /\ cls = "LazyMogrify"
    /\ Len(history) >= 3
    /\ history[1].op = "__str__" /\ history[1].ret.err = "DatabaseError"
    /\ history[2].op = "__repr__" /\ history[2].ret.err = "DatabaseError"
    /\ history[3].ret.ok
    /\ Len(evalLog) = 3

----------------------------------------------------------------------------
(* C4 *)

ReprReturns == {i \in 1..Len(history) : history[i].op = "__repr__" /\ history[i].ret.ok}

\* C4 as claimed: __repr__ of a LazyMogrify equals what frappe.db.mogrify
\* returned for (query, values), and a collaborator that does not raise is
\* invoked exactly once however often __repr__ is called.
C4_ReprEqualsRender ==
    cls = "LazyMogrify" =>
       /\ \A i \in ReprReturns : history[i].ret.val = rendered
       /\ (ReprReturns # {} /\ NoEvalFailed) => Len(evalLog) = 1

\* C4 as amended: __repr__ of a LazyMogrify equals what frappe.db.mogrify
\* returned for (query, values) between one leading and one trailing single
\* quote; the collaborator is called with (query, values); and a collaborator
\* that does not raise is invoked exactly once however often __repr__ is called.
C4_ReprQuotesRender ==
    cls = "LazyMogrify" =>
       /\ \A i \in ReprReturns :
             /\ Len(history[i].ret.val) = Len(rendered) + 2
             /\ history[i].ret.val[1] = QUOTE
             /\ Last(history[i].ret.val) = QUOTE
             /\ \A k \in 1..Len(rendered) : history[i].ret.val[k + 1] = rendered[k]
       /\ \A i \in 1..Len(evalLog) : evalLog[i].args = <<query, values>>
       /\ (ReprReturns # {} /\ NoEvalFailed) => Len(evalLog) = 1
       /\ Cardinality(OkEvals) <= 1

C4_Witness ==
    /\ cls = "LazyMogrify"
    /\ query # values
    /\ Len(rendered) = MaxText
    /\ Cardinality(ReprReturns) >= 3
    /\ Len(evalLog) = 1

----------------------------------------------------------------------------
(* C5 *)

\* C5: with v the text the evaluation yielded, every __str__ (and value) that
\* returns, whether it ran the evaluation or read the cache, returns exactly v,
\* and every __repr__ that returns gives a quote, then v unchanged, then a quote.
C5_ReprIsQuotedStr ==
    \A i \in 1..Len(history) :
       history[i].ret.ok =>
          /\ OkEvals # {}
          /\ LET v == evalLog[Len(evalLog)].out.val
                 got == history[i].ret.val
             IN  /\ cached = <<v>>
                 /\ history[i].op \in {"value", "__str__"} => got = v
                 /\ history[i].op = "__repr__" =>
                       /\ Len(got) = Len(v) + 2
                       /\ got[1] = QUOTE
                       /\ got[Len(got)] = QUOTE
                       /\ \A k \in 1..Len(v) : got[k + 1] = v[k]

C5_Witness ==
    /\ Len(history) >= 3
    /\ history[1].op = "__repr__" /\ history[1].ret.ok
    /\ history[2].op = "__str__" /\ history[2].ret.ok
    /\ history[3].op = "__repr__" /\ history[3].ret.ok
    /\ \E k \in 1..Len(cached[1]) : cached[1][k] = QUOTE

----------------------------------------------------------------------------
(* C6 *)

\* UTF-8 by its definition: the encoding of one Unicode scalar value
IsScalarValue(cp) == cp \in 0..1114111 /\ cp \notin 55296..57343

Utf8EncodeOne(cp) ==
    IF cp < 128 THEN <<cp>>
    ELSE IF cp < 2048 THEN <<192 + cp \div 64, 128 + (cp % 64)>>
    ELSE IF cp < 65536
         THEN <<224 + cp \div 4096, 128 + ((cp \div 64) % 64), 128 + (cp % 64)>>
    ELSE <<240 + cp \div 262144, 128 + ((cp \div 4096) % 64),
           128 + ((cp \div 64) % 64), 128 + (cp % 64)>>

RECURSIVE Utf8Encode(_)
Utf8Encode(text) ==
    IF text = <<>> THEN <<>> ELSE Utf8EncodeOne(Head(text)) \o Utf8Encode(Tail(text))

\* the payload bits of a chunk of 1 to 4 bytes
Payload(c) ==
    CASE Len(c) = 1 -> c[1]
      [] Len(c) = 2 -> (c[1] % 32) * 64 + (c[2] % 64)
      [] Len(c) = 3 -> (c[1] % 16) * 4096 + (c[2] % 64) * 64 + (c[3] % 64)
      [] OTHER -> (c[1] % 8) * 262144 + (c[2] % 64) * 4096 + (c[3] % 64) * 64 + (c[4] % 64)

\* b is the encoding of some sequence of scalar values
RECURSIVE WellFormedUtf8(_)
WellFormedUtf8(b) ==
    \/ b = <<>>
    \/ \E n \in 1..(IF Len(b) < 4 THEN Len(b) ELSE 4) :
          LET c == SubSeq(b, 1, n)
          IN  /\ IsScalarValue(Payload(c))
              /\ Utf8EncodeOne(Payload(c)) = c
              /\ WellFormedUtf8(SubSeq(b, n + 1, Len(b)))

C6_Outcomes ==
    cls = "LazyDecode" =>
       \A i \in 1..Len(history) :
          IF WellFormedUtf8(_value)
          THEN /\ history[i].ret.ok
               /\ \A k \in 1..Len(Observed(history[i])) : IsScalarValue(Observed(history[i])[k])
               /\ Utf8Encode(Observed(history[i])) = _value
          ELSE /\ ~history[i].ret.ok
               /\ history[i].ret.err = "UnicodeDecodeError"

\* C6: every access to a LazyDecode built from B ends as the UTF-8 decoding of
\* B does: if B is well-formed the access returns the text whose encoding is B
\* (between quotes for __repr__), otherwise it raises UnicodeDecodeError; and
\* no step changes the stored B.
C6_DecodesAsReference ==
    /\ []C6_Outcomes
    /\ [][cls = "LazyDecode" => (cls' = cls /\ _value' = _value)]_vars

C6_Witness ==
    /\ cls = "LazyDecode"
    /\ Len(_value) = 3
    /\ Len(history) >= 2
    /\ history[1].op = "__str__"
    /\ history[1].ret.ok
    /\ Len(history[1].ret.val) = 2

----------------------------------------------------------------------------
(* C7 *)

IsBlank(q) == \A i \in 1..Len(q) : q[i] \in WHITESPACE

\* the first whitespace-delimited token of q, for a q that is not blank
FirstToken(q) ==
    LET first == CHOOSE i \in 1..Len(q) :
                    /\ q[i] \notin WHITESPACE
                    /\ \A k \in 1..(i - 1) : q[k] \in WHITESPACE
        last == CHOOSE j \in first..Len(q) :
                    /\ \A k \in first..j : q[k] \notin WHITESPACE
                    /\ (j = Len(q) \/ q[j + 1] \in WHITESPACE)
    IN  SubSeq(q, first, last)

TokenMatches(q, keywords) ==
    /\ ~IsBlank(q)
    /\ \E k \in 1..Len(keywords) :
          /\ Len(keywords[k]) <= Len(FirstToken(q))
          /\ \A i \in 1..Len(keywords[k]) : char_lower(FirstToken(q)[i]) = keywords[k][i]

\* C7: is_query_type returns a boolean for every query, the empty and the
\* whitespace-only ones included: true exactly when the lower-cased first
\* whitespace-delimited token starts with one of the keywords.
C7_ClassifiesEveryQuery ==
    q_ret # <<>> =>
       /\ q_ret[1].ok
       /\ q_ret[1].val = TokenMatches(q_query, q_type)

\* what the code does keep of C7: the same, for the queries that hold a token
C7_ClassifiesQueriesWithToken ==
    (q_ret # <<>> /\ ~IsBlank(q_query)) =>
       /\ q_ret[1].ok
       /\ q_ret[1].val = TokenMatches(q_query, q_type)

----------------------------------------------------------------------------
(* C8 *)

HasBacktick(s) == \E i \in 1..Len(s) : s[i] = BACKTICK

FirstBacktick(s) ==
    CHOOSE i \in 1..Len(s) : s[i] = BACKTICK /\ \A k \in 1..(i - 1) : s[k] # BACKTICK

\* the first dot after position i, Len(s) + 1 when there is none
FirstDotAfter(s, i) ==
    CHOOSE j \in (i + 1)..(Len(s) + 1) :
       /\ j <= Len(s) => s[j] = "."
       /\ \A k \in (i + 1)..(j - 1) : s[k] # "."

\* s[from..to] without its backticks
RECURSIVE WithoutBackticks(_, _, _)
WithoutBackticks(s, from, to) ==
    IF from > to THEN <<>>
    ELSE (IF s[from] = BACKTICK THEN <<>> ELSE <<s[from]>>) \o WithoutBackticks(s, from + 1, to)

\* C8: for a table argument holding a backtick, table_from_string names the
\* DocType by the text after the first backtick up to the first dot, minus its
\* first 3 characters, with every backtick removed; when the first backtick
\* opens a segment of 3 prefix characters and an identifier, closed by a
\* backtick and followed by a dot, that is the identifier.
C8_TableName ==
    (t_ret # <<>> /\ HasBacktick(t_table)) =>
       LET open == FirstBacktick(t_table)
           dot == FirstDotAfter(t_table, open)
       IN  /\ t_ret[1].ok
           /\ t_ret[1].val = WithoutBackticks(t_table, open + 4, dot - 1)
           /\ \A close \in (open + 4)..(Len(t_table) - 1) :
                 (/\ t_table[close] = BACKTICK
                  /\ t_table[close + 1] = "."
                  /\ \A k \in (open + 1)..(close - 1) : t_table[k] \notin {BACKTICK, "."})
                 => t_ret[1].val = SubSeq(t_table, open + 4, close - 1)

C8_Witness ==
    /\ t_table = <<"X", BACKTICK, "t", "t", "t", "X", BACKTICK, ".">>
    /\ t_ret = <<Return(<<"X">>)>>

----------------------------------------------------------------------------
(* C9 *)

\* C9: with two threads reading value, an access that found the cell Evaluated
\* runs no evaluation, at most one evaluation per thread succeeds, and once an
\* access has returned a result the cell is Evaluated.
\* (That two evaluations do both run is the state C9_Witness.)
C9_NoEvaluationOnceEvaluated ==
    /\ \A t \in Threads : frame[t].ran => frame[t].sawEmpty
    /\ Cardinality(OkEvals) <= Cardinality(Threads)
    /\ \A i \in 1..Len(history) : history[i].ret.ok => Evaluated

\* both threads ran the evaluation step of one cell, both returned, and a
\* later access returned the cached result without a third evaluation
C9_Witness ==
    /\ Running = {}
    /\ Len(evalLog) = 2
    /\ OkEvals = {1, 2}
    /\ Len(history) = 3
    /\ \A i \in 1..3 : history[i].ret.ok
    /\ Evaluated

\* under the cached_property that locks (Python 3.10 and 3.11), one evaluation
C9_LockedBuildEvaluatesOnce == build = "locked" => Cardinality(OkEvals) <= 1

----------------------------------------------------------------------------
(* C10 *)

\* C10: sid logs in at most once per test-case instance and every read
\* returns exactly the id of the session cookie that login set.
C10_SidIsCookieId ==
    /\ Len(logins) <= 1
    /\ \A i \in 1..Len(sidReads) : sidReads[i] = logins[1]

====
